---- MODULE Spec2Model ----
(***************************************************************************)
(* Model of the decision-and-adaptation core of the day-trading app:       *)
(*   app/learning/self_learning.py  (weight learner, weight store)         *)
(*   app/signals/fusion.py          (fusion scorer, top-down filter, risk) *)
(*   app/risk/position.py           (position sizing)                      *)
(*   main.py                        (daily trading cycle)                  *)
(*                                                                         *)
(* Python floats are modelled as exact rationals <<n, d>> in lowest terms  *)
(* (d > 0); prices, ATR and equity are drawn from whole numbers.           *)
(***************************************************************************)
EXTENDS Integers, Sequences, FiniteSets, TLC

(***************************************************************************)
(* Exact rational arithmetic                                               *)
(***************************************************************************)
RECURSIVE GCD(_, _)
GCD(a, b) == IF b = 0 THEN a ELSE GCD(b, a % b)

Abs(x) == IF x < 0 THEN -x ELSE x

Rat(n, d) ==
    LET g == GCD(Abs(n), Abs(d))
        s == IF d < 0 THEN -1 ELSE 1
    IN  <<(s * n) \div g, (s * d) \div g>>

\* products and comparisons cancel common factors first, so that the
\* intermediate values stay small
RMul(x, y) ==
    LET g1 == GCD(Abs(x[1]), Abs(y[2]))
        g2 == GCD(Abs(y[1]), Abs(x[2]))
        a  == IF g1 = 0 THEN 1 ELSE g1
        b  == IF g2 = 0 THEN 1 ELSE g2
    IN  Rat((x[1] \div a) * (y[1] \div b), (x[2] \div b) * (y[2] \div a))
RDiv(x, y) == RMul(x, <<y[2], y[1]>>)
RAdd(x, y) ==
    LET g == GCD(x[2], y[2])
    IN  Rat(x[1] * (y[2] \div g) + y[1] * (x[2] \div g), (x[2] \div g) * y[2])
RLt(x, y)  ==
    LET g == GCD(x[2], y[2])
    IN  x[1] * (y[2] \div g) < y[1] * (x[2] \div g)
RLe(x, y)  ==
    LET g == GCD(x[2], y[2])
    IN  x[1] * (y[2] \div g) <= y[1] * (x[2] \div g)
RMin(x, y) == IF RLe(x, y) THEN x ELSE y

Zero == <<0, 1>>
One  == <<1, 1>>

\* max(...) / min(...) of the values of a non-empty map
Range(seq) == {seq[i] : i \in 1..Len(seq)}

MaxValue(m) == CHOOSE v \in {m[k] : k \in DOMAIN m} : \A k \in DOMAIN m : RLe(m[k], v)
MinValue(m) == CHOOSE v \in {m[k] : k \in DOMAIN m} : \A k \in DOMAIN m : RLe(v, m[k])

(***************************************************************************)
(* Bounds of the model                                                     *)
(***************************************************************************)
MaxLog  == 3
MaxRuns == 4

(***************************************************************************)
(* Weight store (trading_logs/signal_weights.json)                         *)
(***************************************************************************)
SignalNames == {"political", "sentiment", "fundamentals", "technical"}
SigOrder    == <<"political", "sentiment", "fundamentals", "technical">>

DEFAULT_WEIGHTS == [s \in SignalNames |-> One]

\* tokens of the JSON text of a weight map
TokOpen       == [t |-> "open",  k |-> "", v |-> Zero]
TokClose      == [t |-> "close", k |-> "", v |-> Zero]
TokPair(k, v) == [t |-> "pair",  k |-> k,  v |-> v]

\* json.dump(weights, f, indent=2): the text written for a map
json_dump(w) ==
    LET keys == SelectSeq(SigOrder, LAMBDA k : k \in DOMAIN w)
    IN  <<TokOpen>> \o [i \in 1..Len(keys) |-> TokPair(keys[i], w[keys[i]])] \o <<TokClose>>

\* json.load succeeds only on a text that is a whole object
json_valid(text) ==
    /\ Len(text) >= 2
    /\ text[1].t = "open"
    /\ text[Len(text)].t = "close"
    /\ \A i \in 2..(Len(text) - 1) : text[i].t = "pair"

json_load(text) ==
    LET idx  == 2..(Len(text) - 1)
        keys == {text[i].k : i \in idx}
        last(k) == CHOOSE i \in idx : text[i].k = k /\ \A j \in idx : text[j].k = k => j <= i
    IN  [k \in keys |-> text[last(k)].v]

\* the file: exists (os.path.exists / open succeeds) and its current text
NoFile == [exists |-> FALSE, text |-> <<>>]
FileOf(w) == [exists |-> TRUE, text |-> json_dump(w)]

\* self_learning.load_weights
self_learning_load_weights(file) ==
    IF ~file.exists THEN DEFAULT_WEIGHTS
    ELSE IF json_valid(file.text) THEN json_load(file.text)
    ELSE DEFAULT_WEIGHTS

\* fusion.load_weights
fusion_load_weights(file) ==
    IF file.exists /\ json_valid(file.text) THEN json_load(file.text)
    ELSE DEFAULT_WEIGHTS

(***************************************************************************)
(* Trade log (trading_logs/weekly_trades.jsonl)                            *)
(***************************************************************************)
\* one line of the log: ok = json.loads succeeds; keys = keys of the record;
\* shape = "record" for a JSON object whose pnl is a number and whose signals
\* is a map
Line(ok, keys, pnl, sigs) ==
    [ok |-> ok, shape |-> "record", keys |-> keys, pnl |-> pnl, signals |-> sigs]

\* a line that parses to something that is not an object, such as 5 or null
ScalarLine == [ok |-> TRUE, shape |-> "scalar", keys |-> {}, pnl |-> 0, signals |-> {}]

\* a record whose pnl is not a number, such as "pnl": "n/a" (sigs = the
\* signals its map marks active)
BadPnlLine(sigs) ==
    [ok |-> TRUE, shape |-> "bad_pnl", keys |-> {"pnl", "signals"}, pnl |-> 5, signals |-> sigs]

\* a record whose signals is not a map, such as "signals": "political"
BadSignalsLine(pnl) ==
    [ok |-> TRUE, shape |-> "bad_signals", keys |-> {"pnl", "signals"}, pnl |-> pnl,
     signals |-> {"political"}]

LogLines ==
    { Line(TRUE,  {"pnl", "signals"},  5, {"political"}),
      Line(TRUE,  {"pnl", "signals"}, -5, SignalNames),
      Line(TRUE,  {"pnl", "signals"},  5, {"sentiment", "fundamentals", "technical"}),
      Line(TRUE,  {"pnl"},             5, {}),
      Line(FALSE, {},                  0, {}) }

\* well-formed and malformed lines of a log written by any program
RecordLines ==
    LogLines \cup {ScalarLine, BadPnlLine({"political"}), BadSignalsLine(5)}

\* the loop of update_strategy_weights that parses the log
parse_log(lines) == SelectSeq(lines, LAMBDA l : l.ok)

\* trade.get("pnl", 0) > 0
trade_outcome(trade) == (IF "pnl" \in trade.keys THEN trade.pnl ELSE 0) > 0

\* signals.get(signal, False) with signals = trade.get("signals", {})
signal_active(trade, sig) == "signals" \in trade.keys /\ sig \in trade.signals

signal_count(trades, sig) ==
    Cardinality({i \in 1..Len(trades) : signal_active(trades[i], sig)})

signal_success(trades, sig) ==
    Cardinality({i \in 1..Len(trades) : signal_active(trades[i], sig) /\ trade_outcome(trades[i])})

success_rate_unseen_neutral(trades, sig) ==
    IF signal_count(trades, sig) > 0
    THEN Rat(signal_success(trades, sig), signal_count(trades, sig))
    ELSE <<1, 2>>

\* success_rate = success / count if count > 0 else 0.0
success_rate(trades, sig) ==
    IF signal_count(trades, sig) > 0
    THEN Rat(signal_success(trades, sig), signal_count(trades, sig))
    ELSE Zero

adjustment_factor_low_bar(rate) ==
    IF RLt(<<4, 10>>, rate) THEN <<11, 10>>
    ELSE IF RLt(rate, <<4, 10>>) THEN <<9, 10>>
    ELSE One

\* the if / elif / else of analyze_trade_performance
adjustment_factor(rate) ==
    IF RLt(<<6, 10>>, rate) THEN <<11, 10>>
    ELSE IF RLt(rate, <<4, 10>>) THEN <<9, 10>>
    ELSE One

trade_raises_never(trade) == FALSE

\* the body of the loop over the trades raises (trade.get on a non-object,
\* a non-numeric pnl compared with 0, signals.get on a non-map) before it
\* counts anything, and the except clause continues with the next trade
trade_raises(trade) == trade.shape # "record"

\* the trades the loop of analyze_trade_performance counts
counted_trades(trades) == SelectSeq(trades, LAMBDA t : ~trade_raises(t))

\* signal_success and signal_count after the loop
trade_counts(trades) ==
    [sig \in SignalNames |->
        [success |-> signal_success(counted_trades(trades), sig),
         count   |-> signal_count(counted_trades(trades), sig)]]

analyze_trade_performance(trades) ==
    [sig \in SignalNames |-> adjustment_factor(success_rate(counted_trades(trades), sig))]

apply_adjustments_added(weights, adjustments) ==
    [sig \in DOMAIN weights |-> RAdd(weights[sig], adjustments[sig])]

\* updated_weights = {sig: weights[sig] * adjustments[sig] for sig in weights}
apply_adjustments(weights, adjustments) ==
    [sig \in DOMAIN weights |-> RMul(weights[sig], adjustments[sig])]

normalize_by_min(updated) == [k \in DOMAIN updated |-> RDiv(updated[k], MinValue(updated))]

normalize_skipped(updated) == updated

\* normalized_weights = {k: v / max_weight for k, v in updated_weights.items()}
normalize(updated) == [k \in DOMAIN updated |-> RDiv(updated[k], MaxValue(updated))]

\* the weight map update_strategy_weights hands to save_weights
learned_weights(file, trades) ==
    normalize(apply_adjustments(self_learning_load_weights(file), analyze_trade_performance(trades)))

(***************************************************************************)
(* State                                                                   *)
(***************************************************************************)
VARIABLES
    weightsFile,   \* trading_logs/signal_weights.json
    tradeLog,      \* trading_logs/weekly_trades.jsonl: [exists, lines]
    learner,       \* position of update_strategy_weights: [pc, buf, log, before, new]
    runs,          \* number of calls of update_strategy_weights so far
    lastRun,       \* the last finished call: [n, log, after]
    prevRun,       \* the finished call before it
    call,          \* the handler call being observed: its inputs, locals and result
    positionsFile, \* trading_logs/open_positions.json: [exists, list]
    equity,        \* main.equity, read from the broker account at start-up
    priceCache,    \* position._price_cache: [some, price] (one symbol)
    stateFile,     \* trading_logs/trading_state.json: [exists, enabled]
    subscription,  \* trading-signals-sub: the messages Pub/Sub still has to deliver
    executorPositions \* executor._positions: net quantity per symbol

learnVars == <<tradeLog, learner, runs, lastRun, prevRun>>
tradeVars == <<call, positionsFile, equity, priceCache, stateFile, subscription, executorPositions>>
vars == <<weightsFile, tradeLog, learner, runs, lastRun, prevRun,
          call, positionsFile, equity, priceCache, stateFile,
          subscription, executorPositions>>

IdleCall == [op |-> "idle"]
NoPositions == [exists |-> FALSE, list |-> <<>>]
NoCache == [some |-> FALSE, price |-> Zero]
NoState == [exists |-> FALSE, enabled |-> TRUE]
NoNetPositions == [s \in {} |-> 0]

\* a finished call of update_strategy_weights: its number, the log lines it
\* read, whether it called save_weights, the weights it loaded (before), the
\* counts and factors of analyze_trade_performance, the weights before
\* normalisation (updated) and the weights in the store when it returned
RunRecord(n, log, wrote, before, trades, after) ==
    [n |-> n, log |-> log, wrote |-> wrote, before |-> before,
     counts |-> trade_counts(trades),
     adjustments |-> IF wrote THEN analyze_trade_performance(trades)
                     ELSE [sig \in SignalNames |-> One],
     updated |-> IF wrote THEN apply_adjustments(before, analyze_trade_performance(trades))
                 ELSE before,
     after |-> after]

NoRun == RunRecord(0, <<>>, FALSE, DEFAULT_WEIGHTS, <<>>, DEFAULT_WEIGHTS)
IdleLearner == [pc |-> "idle", buf |-> <<>>, log |-> <<>>,
                before |-> DEFAULT_WEIGHTS, new |-> DEFAULT_WEIGHTS]

InitLearn ==
    /\ weightsFile = NoFile
    /\ tradeLog = [exists |-> FALSE, lines |-> <<>>]
    /\ learner = IdleLearner
    /\ runs = 0
    /\ lastRun = NoRun
    /\ prevRun = NoRun
    /\ call = IdleCall
    /\ positionsFile = NoPositions
    /\ equity = 100000
    /\ priceCache = NoCache
    /\ stateFile = NoState
    /\ subscription = {}
    /\ executorPositions = NoNetPositions

(***************************************************************************)
(* Weight learner                                                          *)
(***************************************************************************)
\* The result of a call is taken by its caller before the next step of the
\* learner or of the log writer: a step is enabled when call.op = "idle".
\* a trade is appended to the log (open(..., "a") creates the file)
AppendTrade ==
    /\ call.op = "idle"
    /\ Len(tradeLog.lines) < MaxLog
    /\ \E l \in LogLines :
          tradeLog' = [exists |-> TRUE, lines |-> Append(tradeLog.lines, l)]
    /\ UNCHANGED <<weightsFile, learner, runs, lastRun, prevRun, call, positionsFile, equity, priceCache, stateFile, subscription, executorPositions>>

\* update_strategy_weights up to and including open(WEIGHTS_FILE, "w") in
\* save_weights, which truncates the file
UpdateStrategyWeights ==
    /\ call.op = "idle"
    /\ learner.pc = "idle"
    /\ runs < MaxRuns
    /\ runs' = runs + 1
    /\ LET trades == parse_log(tradeLog.lines)
           before == self_learning_load_weights(weightsFile)
       IN  IF ~tradeLog.exists \/ trades = <<>>
           THEN /\ prevRun' = lastRun
                /\ lastRun' = RunRecord(runs + 1, tradeLog.lines, FALSE, before, <<>>, before)
                /\ UNCHANGED <<weightsFile, learner>>
           ELSE /\ weightsFile' = [exists |-> TRUE, text |-> <<>>]
                /\ learner' = [pc |-> "writing",
                               buf |-> json_dump(learned_weights(weightsFile, trades)),
                               log |-> tradeLog.lines,
                               before |-> before,
                               new |-> learned_weights(weightsFile, trades)]
                /\ UNCHANGED <<lastRun, prevRun>>
    /\ UNCHANGED <<tradeLog, call, positionsFile, equity, priceCache, stateFile, subscription, executorPositions>>

\* json.dump fills the file buffer, leaving the with block flushes it to the
\* file and closes it, and update_strategy_weights returns
SaveWeightsClose ==
    /\ call.op = "idle"
    /\ learner.pc = "writing"
    /\ weightsFile' = [weightsFile EXCEPT !.text = @ \o learner.buf]
    /\ prevRun' = lastRun
    /\ lastRun' = RunRecord(runs, learner.log, TRUE, learner.before,
                            parse_log(learner.log), learner.new)
    /\ learner' = IdleLearner
    /\ UNCHANGED <<tradeLog, runs, call, positionsFile, equity, priceCache, stateFile, subscription, executorPositions>>

\* fusion.load_weights, called by another process at any moment; before and
\* new are the complete maps on either side of the save in progress
FusionLoadWeights ==
    /\ call.op = "idle"
    /\ call' = [op |-> "load_weights",
                weights |-> fusion_load_weights(weightsFile),
                before |-> IF learner.pc = "writing" THEN learner.before
                           ELSE self_learning_load_weights(weightsFile),
                new |-> IF learner.pc = "writing" THEN learner.new
                        ELSE self_learning_load_weights(weightsFile)]
    /\ UNCHANGED <<weightsFile, positionsFile, equity, priceCache, stateFile, subscription, executorPositions>>
    /\ UNCHANGED learnVars

\* the caller takes the result of the call
ReturnFromCall ==
    /\ call.op # "idle"
    /\ call' = IdleCall
    /\ UNCHANGED <<weightsFile, positionsFile, equity, priceCache, stateFile, subscription, executorPositions>>
    /\ UNCHANGED learnVars

NextLearn ==
    \/ AppendTrade
    \/ UpdateStrategyWeights
    \/ SaveWeightsClose
    \/ FusionLoadWeights
    \/ ReturnFromCall

SpecLearn == InitLearn /\ [][NextLearn]_vars

\* the learner on a trade log and a weight store it finds on disk: the log is
\* missing or holds up to MaxLog lines of any kind, the store is missing,
\* holds the weights of an earlier run, or holds a JSON object that lacks
\* three of the four signals
StoredWeights == learned_weights(NoFile, <<Line(TRUE, {"pnl", "signals"}, 5, {"political"})>>)

PartialStore == [exists |-> TRUE, text |-> <<TokOpen, TokPair("political", One), TokClose>>]

InitRecords ==
    /\ weightsFile \in {NoFile, FileOf(StoredWeights), PartialStore}
    /\ tradeLog \in {[exists |-> FALSE, lines |-> <<>>]} \cup
          {[exists |-> TRUE, lines |-> l] : l \in UNION {[1..k -> RecordLines] : k \in 0..MaxLog}}
    /\ learner = IdleLearner
    /\ runs = 0
    /\ lastRun = NoRun
    /\ prevRun = NoRun
    /\ call = IdleCall
    /\ positionsFile = NoPositions
    /\ equity = 100000
    /\ priceCache = NoCache
    /\ stateFile = NoState
    /\ subscription = {}
    /\ executorPositions = NoNetPositions

NextRecords ==
    \/ UpdateStrategyWeights
    \/ SaveWeightsClose

SpecRecords == InitRecords /\ [][NextRecords]_vars

(***************************************************************************)
(* Claims about the weight learner                                         *)
(***************************************************************************)
Half == <<1, 2>>
Two  == <<2, 1>>

PersistedWeights == self_learning_load_weights(weightsFile)

\* C1 (as stated): after any number of runs of update_strategy_weights from
\* the default weights, every persisted weight lies in [0.5, 2.0].
C1_WeightsInHalfToTwo ==
    learner.pc = "idle" =>
        \A s \in DOMAIN PersistedWeights :
            RLe(Half, PersistedWeights[s]) /\ RLe(PersistedWeights[s], Two)

\* C1 (amended): after any number of runs from the default weights, every
\* persisted weight is positive and at most 2.0.
C1_WeightsPositiveAtMostTwo ==
    learner.pc = "idle" =>
        \A s \in DOMAIN PersistedWeights :
            RLt(Zero, PersistedWeights[s]) /\ RLe(PersistedWeights[s], Two)

\* C1 witness: a run has saved a map in which some weight fell below 1.0
C1_Witness ==
    /\ learner.pc = "idle"
    /\ weightsFile.exists
    /\ lastRun.n > 0
    /\ \E s \in DOMAIN PersistedWeights : RLt(PersistedWeights[s], One)

\* every signal's win rate over the parsed log lies in [0.4, 0.6]
AllRatesInNeutralBand(lines) ==
    \A sig \in SignalNames :
        LET c == signal_count(parse_log(lines), sig)
            w == signal_success(parse_log(lines), sig)
        IN  c > 0 /\ 10 * w >= 4 * c /\ 10 * w <= 6 * c

TwoRunsSameLog ==
    /\ learner.pc = "idle"
    /\ prevRun.n > 0
    /\ lastRun.n = prevRun.n + 1
    /\ lastRun.log = prevRun.log
    /\ lastRun.log # <<>>

C4_LoadSeesOldOrNew ==
    call.op = "load_weights" =>
        (call.weights = call.before \/ call.weights = call.new)

\* the trades of a log in which a signal was active, and those of them that
\* were profitable; a line counts when it is a well-formed record
WellFormed(l) == l.ok /\ l.shape = "record"
ActiveTrades(lines, sig) ==
    {i \in 1..Len(lines) : WellFormed(lines[i]) /\ "signals" \in lines[i].keys
                             /\ sig \in lines[i].signals}
WinningTrades(lines, sig) ==
    {i \in ActiveTrades(lines, sig) : "pnl" \in lines[i].keys /\ lines[i].pnl > 0}

\* the win rate of a signal; a signal active in no trade has win rate 0
WinRate(lines, sig) ==
    IF ActiveTrades(lines, sig) = {} THEN Zero
    ELSE Rat(Cardinality(WinningTrades(lines, sig)), Cardinality(ActiveTrades(lines, sig)))

\* C14: the factor analyze_trade_performance returns for a signal is 1.1 if
\* its win rate (profitable trades among the trades in which it was active)
\* is above 0.6, 0.9 if it is below 0.4, and 1.0 otherwise.
C14_AdjustmentFactors ==
    lastRun.wrote =>
        \A sig \in SignalNames :
            LET rate == WinRate(lastRun.log, sig)
            IN  lastRun.adjustments[sig] =
                    IF RLt(<<6, 10>>, rate) THEN <<11, 10>>
                    ELSE IF RLt(rate, <<4, 10>>) THEN <<9, 10>>
                    ELSE One

\* C14 witness: a run in which one signal that was active gets 1.1 and
\* another signal that was active gets 0.9
C14_Witness ==
    /\ lastRun.wrote
    /\ \E s, t \in SignalNames :
          /\ ActiveTrades(lastRun.log, s) # {} /\ lastRun.adjustments[s] = <<11, 10>>
          /\ ActiveTrades(lastRun.log, t) # {} /\ lastRun.adjustments[t] = <<9, 10>>

\* C15: after a run that saves weights the largest saved weight is 1.0,
\* every saved weight is in (0, 1], and the saved weights are in the same
\* ratios as the adjusted weights before normalisation (every adjusted
\* weight is the same multiple of its saved weight).
C15_NormalizedToMax ==
    lastRun.wrote =>
        /\ \E s \in DOMAIN lastRun.after : lastRun.after[s] = One
        /\ \A s \in DOMAIN lastRun.after :
               RLt(Zero, lastRun.after[s]) /\ RLe(lastRun.after[s], One)
        /\ LET ref == CHOOSE s \in DOMAIN lastRun.after : TRUE
               c   == RDiv(lastRun.updated[ref], lastRun.after[ref])
           IN  \A s \in DOMAIN lastRun.after :
                   RDiv(lastRun.updated[s], lastRun.after[s]) = c

\* C15 witness: a run whose adjusted weights had a maximum other than 1.0 and
\* were not all equal
C15_Witness ==
    /\ lastRun.wrote
    /\ \A s \in SignalNames : lastRun.updated[s] # One
    /\ \E s, t \in SignalNames : lastRun.updated[s] # lastRun.updated[t]

\* a complete four-signal map of positive numbers
IsCompleteMap(w) == DOMAIN w = SignalNames /\ \A s \in SignalNames : RLt(Zero, w[s])

\* the weight file holds a complete four-signal map of positive numbers
ValidStore(file) ==
    file.exists /\ json_valid(file.text) /\ IsCompleteMap(json_load(file.text))

\* C17: generate_fused_signal and update_strategy_weights work with the
\* stored weights when the weight file holds a complete four-signal map of
\* positive numbers and with the default weights (all 1.0) otherwise.
C17_DefaultsOnBadStore ==
    /\ lastRun.wrote => IsCompleteMap(lastRun.before)
    /\ call.op = "generate_fused_signal" =>
          /\ IsCompleteMap(call.weights)
          /\ ~ValidStore(weightsFile) => call.weights = DEFAULT_WEIGHTS

\* no line of the log parses to a record (a JSON object)
NoParseableRecord(lines) ==
    \A i \in 1..Len(lines) : ~lines[i].ok \/ lines[i].shape = "scalar"

\* C16: when the trade log is missing, empty or holds no parseable record,
\* update_strategy_weights does not write the weight store and leaves the
\* weights as they were.
C16_NoOpWithoutRecords ==
    (lastRun.n > 0 /\ NoParseableRecord(lastRun.log)) =>
        /\ ~lastRun.wrote
        /\ lastRun.after = lastRun.before

\* the log without its malformed lines and records
CleanLog(lines) == SelectSeq(lines, WellFormed)

\* C18: a malformed line or record is skipped on its own: the win counts and
\* the adjustments of a run equal those computed from the log with the
\* malformed lines and records removed.
C18_MalformedSkipped ==
    lastRun.wrote =>
        /\ lastRun.counts = trade_counts(CleanLog(lastRun.log))
        /\ lastRun.adjustments = analyze_trade_performance(CleanLog(lastRun.log))

\* C18 witness: a run over a log that holds an unparseable line, a record
\* with a non-numeric pnl and a winning trade whose signal gets 1.1
C18_Witness ==
    /\ lastRun.wrote
    /\ \E i, j \in 1..Len(lastRun.log) :
          ~lastRun.log[i].ok /\ lastRun.log[j].shape = "bad_pnl"
    /\ \E s \in SignalNames :
          WinningTrades(lastRun.log, s) # {} /\ lastRun.adjustments[s] = <<11, 10>>

(***************************************************************************)
(* Fusion scorer, top-down filter and risk sizer (app/signals/fusion.py)   *)
(***************************************************************************)
Symbols == {"NVDA", "TSLA"}

\* sector_map.get(symbol) == "Technology"
sector_map(symbol) ==
    IF symbol \in {"RARE", "NVDA", "AMD", "AAPL", "MSFT", "GOOGL", "META"} THEN "Technology"
    ELSE IF symbol = "TSLA" THEN "Automotive"
    ELSE "None"

\* answers of the FMP profile endpoint: some = FALSE is None (request failed
\* or empty list); keys are the fields the answer carries
Profile(some, keys, price, pe, sma50) ==
    [some |-> some, keys |-> keys, price |-> price, pe |-> pe, sma50 |-> sma50]

NoProfile == Profile(FALSE, {}, Zero, Zero, Zero)

ProfileAnswers ==
    { NoProfile,
      Profile(TRUE, {"price", "priceToEarningsRatio", "sma50"}, <<100, 1>>, <<4, 5>>, <<50, 1>>),
      Profile(TRUE, {"price", "priceToEarningsRatio", "sma50"}, <<100, 1>>, <<1, 1>>, <<150, 1>>),
      Profile(TRUE, {"price", "priceToEarningsRatio"},          <<100, 1>>, <<4, 5>>, Zero),
      Profile(TRUE, {"priceToEarningsRatio", "sma50"},          Zero,       <<4, 5>>, <<50, 1>>) }

\* float(fundamentals.get(key, default)) if fundamentals else default
profile_get(f, key, default) ==
    IF f.some /\ key \in f.keys
    THEN (CASE key = "price" -> f.price
            [] key = "priceToEarningsRatio" -> f.pe
            [] key = "sma50" -> f.sma50)
    ELSE default

\* answers of the FMP RSI endpoint: ok = FALSE when the request gave no data
RsiAnswers == { [ok |-> FALSE, rsi |-> 0], [ok |-> TRUE, rsi |-> 0], [ok |-> TRUE, rsi |-> 25],
                [ok |-> TRUE, rsi |-> 30], [ok |-> TRUE, rsi |-> 75] }

\* fusion.get_technical_signal
get_technical_signal(a) ==
    IF ~a.ok THEN "neutral"
    ELSE IF a.rsi # 0 /\ a.rsi < 30 THEN "buy"
    ELSE IF a.rsi # 0 /\ a.rsi > 70 THEN "sell"
    ELSE "neutral"

\* answers of the FMP historical-price endpoint for SPY: ok = FALSE when the
\* request failed, len = number of days, last and sum over the last 50 closes
SpyAnswers == { [ok |-> FALSE, len |-> 0,  last |-> 0,   sum |-> 0],
                [ok |-> TRUE,  len |-> 49, last |-> 101, sum |-> 4900],
                [ok |-> TRUE,  len |-> 50, last |-> 101, sum |-> 5000],
                [ok |-> TRUE,  len |-> 50, last |-> 100, sum |-> 5000] }

\* fusion.get_market_regime
get_market_regime(a) ==
    IF ~a.ok \/ a.len < 50 THEN "neutral"
    ELSE IF RLt(Rat(a.sum, 50), <<a.last, 1>>) THEN "bull"
    ELSE "bear"

\* answers of the FMP ATR endpoint
AtrAnswers == { [ok |-> FALSE, atr |-> Zero], [ok |-> TRUE, atr |-> Zero],
                [ok |-> TRUE, atr |-> <<2, 1>>], [ok |-> TRUE, atr |-> <<3, 2>>],
                [ok |-> TRUE, atr |-> <<600, 1>>] }

\* fusion.get_atr
get_atr(a) == IF a.ok THEN a.atr ELSE One

\* fusion.is_top_down_aligned: the locals and the value returned
is_top_down_aligned(symbol, spy, profile) ==
    LET market_regime   == get_market_regime(spy)
        sector_momentum == sector_map(symbol) = "Technology"
        price           == profile_get(profile, "price", Zero)
        sma50           == profile_get(profile, "sma50", Zero)
        stock_momentum  == RLt(sma50, price)
    IN  [market_regime |-> market_regime,
         sector_momentum |-> sector_momentum,
         stock_momentum |-> stock_momentum,
         aligned |-> IF market_regime = "bear" THEN FALSE
                     ELSE market_regime # "bear" /\ sector_momentum /\ stock_momentum]

sentiment_score == <<7, 10>>

tech_veto_never(tech_signal) == FALSE

\* elif tech_signal == "sell": return None
tech_veto(tech_signal) == tech_signal = "sell"

regime_damping_always(score, regime) == RMul(score, Half)

\* if regime == "bear": total_score *= 0.5
regime_damping(score, regime) == IF regime = "bear" THEN RMul(score, Half) ELSE score

passes_threshold_strict(total_score) == RLt(<<5, 2>>, total_score)

\* if total_score >= 2.5
passes_threshold(total_score) == RLe(<<5, 2>>, total_score)

confidence_unbounded(total_score) == RDiv(total_score, <<4, 1>>)

\* confidence = min(total_score / 4.0, 1.0)
confidence_of(total_score) == RMin(RDiv(total_score, <<4, 1>>), One)

\* int(x)
RInt(x) == IF x[1] >= 0 THEN x[1] \div x[2] ELSE -((-x[1]) \div x[2])

account_capital == 100000

risk_size_one_atr(entry_price, atr) ==
    LET stop_loss_price    == RAdd(entry_price, RMul(<<-1, 1>>, atr))
        risk_per_share     == RAdd(entry_price, RMul(<<-1, 1>>, stop_loss_price))
        max_risk_per_trade == Rat(account_capital, 100)
    IN  [stop_loss |-> stop_loss_price,
         risk_per_share |-> risk_per_share,
         qty |-> IF RLt(Zero, risk_per_share)
                 THEN RInt(RDiv(max_risk_per_trade, risk_per_share)) ELSE 0]

\* the risk sizing of generate_fused_signal: stop, risk per share, quantity
risk_size(entry_price, atr) ==
    LET stop_loss_price    == RAdd(entry_price, RMul(<<-2, 1>>, atr))
        risk_per_share     == RAdd(entry_price, RMul(<<-1, 1>>, stop_loss_price))
        max_risk_per_trade == Rat(account_capital, 100)
    IN  [stop_loss |-> stop_loss_price,
         risk_per_share |-> risk_per_share,
         qty |-> IF RLt(Zero, risk_per_share)
                 THEN RInt(RDiv(max_risk_per_trade, risk_per_share)) ELSE 0]

qty_rejected_never(qty) == FALSE

\* if qty == 0: return None
qty_rejected(qty) == qty = 0

\* fusion.generate_fused_signal(symbol, political_buy) with the answers of
\* its collaborators: the locals it computed, the statement it returned at
\* (exit) and what it returned
generate_fused_signal(file, symbol, political_buy, profile, rsi, spy1, spy2, profile2, atrAns) ==
    LET weights     == fusion_load_weights(file)
        score1      == IF political_buy THEN RAdd(Zero, RMul(One, weights["political"])) ELSE Zero
        reasons1    == IF political_buy THEN <<"political">> ELSE <<>>
        sentiment   == RLt(Half, sentiment_score)
        score2      == IF sentiment THEN RAdd(score1, RMul(One, weights["sentiment"])) ELSE score1
        reasons2    == IF sentiment THEN Append(reasons1, "sentiment") ELSE reasons1
        peg_ratio   == profile_get(profile, "priceToEarningsRatio", <<999, 1>>)
        cheap       == profile.some /\ RLt(peg_ratio, One)
        score3      == IF cheap THEN RAdd(score2, RMul(One, weights["fundamentals"])) ELSE score2
        reasons3    == IF cheap THEN Append(reasons2, "fundamentals") ELSE reasons2
        tech_signal == get_technical_signal(rsi)
        score4      == IF tech_signal = "buy"
                       THEN RAdd(score3, RMul(One, weights["technical"])) ELSE score3
        reasons     == IF tech_signal = "buy" THEN Append(reasons3, "technical") ELSE reasons3
        regime      == get_market_regime(spy1)
        total_score == regime_damping(score4, regime)
        topdown     == is_top_down_aligned(symbol, spy2, profile2)
        atr         == get_atr(atrAns)
        entry_price == profile_get(profile, "price", Zero)
        risk        == risk_size(entry_price, atr)
        exit ==
            IF tech_veto(tech_signal) THEN "tech_sell"
            ELSE IF ~topdown.aligned THEN "top_down"
            ELSE IF ~passes_threshold(total_score) THEN "score"
            ELSE IF RLe(atr, Zero) THEN "atr"
            ELSE IF RLe(entry_price, Zero) THEN "entry_price"
            ELSE IF RLe(risk.risk_per_share, Zero) THEN "risk_per_share"
            ELSE IF qty_rejected(risk.qty) THEN "qty"
            ELSE "signal"
    IN  [op |-> "generate_fused_signal",
         symbol |-> symbol,
         weights |-> weights,
         tech_signal |-> tech_signal,
         reasons |-> reasons,
         regime |-> regime,
         total_score |-> total_score,
         topdown |-> topdown,
         topdown_evaluated |-> ~tech_veto(tech_signal),
         topdown_regime_known |-> spy2.ok /\ spy2.len >= 50,
         topdown_sma_known |-> profile2.some /\ "sma50" \in profile2.keys,
         topdown_price |-> profile_get(profile2, "price", Zero),
         topdown_sma50 |-> profile_get(profile2, "sma50", Zero),
         atr |-> atr,
         entry_price |-> entry_price,
         stop_loss |-> risk.stop_loss,
         risk_per_share |-> risk.risk_per_share,
         quantity |-> risk.qty,
         confidence |-> confidence_of(total_score),
         exit |-> exit,
         result |-> IF exit = "signal" THEN "buy" ELSE "none"]

GenerateFusedSignal ==
    /\ call.op = "idle"
    /\ \E symbol \in Symbols, political_buy \in BOOLEAN,
          profile \in ProfileAnswers, profile2 \in ProfileAnswers,
          rsi \in RsiAnswers, spy1 \in SpyAnswers, spy2 \in SpyAnswers, atrAns \in AtrAnswers :
          call' = generate_fused_signal(weightsFile, symbol, political_buy, profile, rsi,
                                        spy1, spy2, profile2, atrAns)
    /\ UNCHANGED <<weightsFile, positionsFile, equity, priceCache, stateFile, subscription, executorPositions>>
    /\ UNCHANGED learnVars

\* weight maps the weight store may hold when the scorer runs
WeightChoices == {Half, Two}

InitFusion ==
    /\ weightsFile \in {NoFile} \cup
          {FileOf(w) : w \in [SignalNames -> WeightChoices]}
    /\ tradeLog = [exists |-> FALSE, lines |-> <<>>]
    /\ learner = IdleLearner
    /\ runs = 0
    /\ lastRun = NoRun
    /\ prevRun = NoRun
    /\ call = IdleCall
    /\ positionsFile = NoPositions
    /\ equity = 100000
    /\ priceCache = NoCache
    /\ stateFile = NoState
    /\ subscription = {}
    /\ executorPositions = NoNetPositions

NextFusion ==
    \/ GenerateFusedSignal
    \/ ReturnFromCall

SpecFusion == InitFusion /\ [][NextFusion]_vars

(***************************************************************************)
(* Position sizing (app/risk/position.py)                                  *)
(***************************************************************************)
RISK_PERCENT  == <<1, 100>>
STOP_DISTANCE == <<2, 100>>

\* answers of the market-data API (trade, then quote): some = FALSE is None
PriceAnswers == { [some |-> FALSE, price |-> Zero], [some |-> TRUE, price |-> <<100, 1>>] }

\* answers of the account API: some = FALSE is None
EquityAnswers == { [some |-> FALSE, equity |-> Zero], [some |-> TRUE, equity |-> Zero],
                   [some |-> TRUE, equity |-> <<100, 1>>],
                   [some |-> TRUE, equity |-> <<100000, 1>>] }

\* position.get_position_size(symbol): the price it used, the cache it left
\* and the quantity it returned; fresh = the cache entry is under 30 s old
get_position_size(cache, fresh, latest, account) ==
    LET cached_price == IF cache.some /\ fresh THEN cache.price ELSE Zero
        use_cache    == cached_price # Zero
        price        == IF use_cache THEN cached_price
                        ELSE IF latest.some /\ latest.price # Zero THEN latest.price
                        ELSE <<175, 1>>
        equity_ok    == account.some /\ RLt(Zero, account.equity)
        risk_per_share == RMul(price, STOP_DISTANCE)
        risk_amount  == RMul(account.equity, RISK_PERCENT)
        qty          == RInt(RDiv(risk_amount, risk_per_share))
    IN  [op |-> "get_position_size",
         price |-> price,
         cache |-> IF use_cache THEN cache ELSE [some |-> TRUE, price |-> price],
         equity_ok |-> equity_ok,
         equity |-> account.equity,
         risk_per_share |-> risk_per_share,
         quantity |-> IF ~equity_ok THEN 1 ELSE IF qty > 1 THEN qty ELSE 1]

GetPositionSize ==
    /\ call.op = "idle"
    /\ \E fresh \in BOOLEAN, latest \in PriceAnswers, account \in EquityAnswers :
          /\ call' = get_position_size(priceCache, fresh, latest, account)
          /\ priceCache' = call'.cache
    /\ UNCHANGED <<weightsFile, positionsFile, equity, stateFile, subscription, executorPositions>>
    /\ UNCHANGED learnVars

(***************************************************************************)
(* Daily trading cycle (main.py)                                           *)
(***************************************************************************)
DailySymbols == {"RARE", "NVDA"}

\* NaN, as pandas gives it for a rolling mean over too few rows
NaN == <<0, 0>>
IsNaN(x) == x[2] = 0

\* answers of get_ticker_safe(symbol): some = FALSE is None; len = number of
\* rows; close = last close; range = mean of high - low over the last 14 rows;
\* rsi = 14-row RSI; surge = last volume > 1.8 * 20-row mean volume
Hist(some, len, close, range, rsi, surge) ==
    [some |-> some, len |-> len, close |-> close, range |-> range, rsi |-> rsi, surge |-> surge]

NoHist == Hist(FALSE, 0, Zero, Zero, 50, FALSE)

HistAnswers ==
    { NoHist,
      Hist(TRUE, 60, <<100, 1>>, <<2, 1>>,   50, FALSE),
      Hist(TRUE, 60, <<90, 1>>,  <<2, 1>>,   50, TRUE),
      Hist(TRUE, 60, <<100, 1>>, <<600, 1>>, 75, TRUE),
      Hist(TRUE, 60, <<100, 1>>, Zero,       50, FALSE),
      Hist(TRUE, 10, <<100, 1>>, <<2, 1>>,   50, FALSE) }

\* (high - low).rolling(14).mean().iloc[-1]
rolling_atr(h) == IF h.len < 14 THEN NaN ELSE h.range

\* main.get_technical_signal
main_get_technical_signal(h) ==
    IF ~h.some \/ h.len < 14 THEN "neutral"
    ELSE IF h.rsi < 30 THEN "buy"
    ELSE IF h.rsi > 70 THEN "sell"
    ELSE "neutral"

\* main.get_market_regime, on the answer for SPY
main_get_market_regime(a) ==
    IF ~a.ok \/ a.len < 50 THEN "neutral"
    ELSE IF RLt(Rat(a.sum, 50), <<a.last, 1>>) THEN "bull"
    ELSE "bear"

\* answers of get_ticker_safe for the GOP and NANC ETFs
EtfAnswers == { [some |-> FALSE, current |-> 0,  sma |-> 0,  first |-> 1],
                [some |-> TRUE,  current |-> 11, sma |-> 10, first |-> 10],
                [some |-> TRUE,  current |-> 9,  sma |-> 10, first |-> 10] }

\* the answers for GOP and NANC in one cycle: the data provider serves both
\* requests or neither
EtfPairs == {p \in EtfAnswers \X EtfAnswers : p[1].some = p[2].some}

\* main.get_political_regime
get_political_regime(gop, nanc) ==
    IF ~gop.some \/ ~nanc.some THEN "fallback"
    ELSE LET gop_momentum  == gop.current > gop.sma
             nanc_momentum == nanc.current > nanc.sma
         IN  IF gop_momentum /\ ~nanc_momentum THEN "republican_favor"
             ELSE IF nanc_momentum /\ ~gop_momentum THEN "democratic_favor"
             ELSE IF gop_momentum /\ nanc_momentum
                  THEN (IF RLt(Rat(nanc.current, nanc.first), Rat(gop.current, gop.first))
                        THEN "republican_favor" ELSE "democratic_favor")
             ELSE "neutral"

preferred_stocks(political_regime) ==
    IF political_regime = "republican_favor" THEN {"RARE", "TSLA", "AMD", "GME", "AMC"}
    ELSE IF political_regime = "democratic_favor" THEN {"NVDA", "MSFT", "META", "AAPL", "ORCL"}
    ELSE {"RARE"}

\* answers of the broker's asset list, already filtered: ok = FALSE when the
\* call failed and get_watchlist falls back to its fixed list
WatchlistAnswers == { [ok |-> FALSE, symbols |-> <<>>],
                      [ok |-> TRUE,  symbols |-> <<"NVDA", "RARE">>] }

get_watchlist(a) ==
    IF a.ok THEN a.symbols ELSE <<"RARE", "NVDA", "TSLA", "SPY", "GME", "AMC">>

hustle_watchlist == <<"RARE", "GME", "AMC", "SNDL", "MVIS", "NVDA", "TSLA">>

\* main.load_open_positions
load_open_positions(file) == IF file.exists THEN file.list ELSE <<>>

Held(list) == {list[i].symbol : i \in 1..Len(list)}

\* the if / elif / elif of the exit loop of run_daily
exit_reason_of(current_price, stop_loss, tech_signal, market_regime) ==
    IF RLe(current_price, stop_loss) THEN "stop_loss"
    ELSE IF tech_signal = "sell" THEN "profit_take"
    ELSE IF market_regime = "bear" THEN "market_regime"
    ELSE "none"

\* the exit check of run_daily for one position
exit_reason(pos, h, market_regime) ==
    exit_reason_of(h.close, pos.stop_loss, main_get_technical_signal(h), market_regime)

Order(symbol, side, qty, price, stop_loss, reason) ==
    [symbol |-> symbol, side |-> side, qty |-> qty, price |-> price,
     stop_loss |-> stop_loss, reason |-> reason]

\* the functions app/learning/self_learning.py defines
self_learning_functions ==
    {"load_weights", "save_weights", "analyze_trade_performance", "update_strategy_weights"}

\* `from app.learning.self_learning import name` succeeds
can_import(name) == name \in self_learning_functions

\* the file main.log_trade appends to, and the one update_strategy_weights reads
main_trade_log    == "trading_logs/trades.jsonl"
learner_trade_log == "trading_logs/weekly_trades.jsonl"

\* main.run_daily on a market day: quotes = answer of get_ticker_safe per
\* symbol (the same answer for every fetch of the cycle; None for a symbol
\* outside DailySymbols), accepts = symbols whose orders the broker accepts,
\* log_ok = FALSE when log_trade's append to the trade log raises
run_daily_open(file, eq, spy, gop, nanc, wl, quotes, accepts, log_ok, weekday) ==
    LET market_regime    == main_get_market_regime(spy)
        political_regime == get_political_regime(gop, nanc)
        preferred        == preferred_stocks(political_regime)
        watchlist        == get_watchlist(wl)
        open_positions   == load_open_positions(file)
        quote(sym)       == IF sym \in DailySymbols THEN quotes[sym] ELSE NoHist
        \* 5. check for exits
        checked == SelectSeq(open_positions, LAMBDA pos : quote(pos.symbol).some)
        exits == [i \in 1..Len(checked) |->
                     [symbol |-> checked[i].symbol,
                      current_price |-> quote(checked[i].symbol).close,
                      stop_loss |-> checked[i].stop_loss,
                      tech_signal |-> main_get_technical_signal(quote(checked[i].symbol)),
                      reason |-> exit_reason(checked[i], quote(checked[i].symbol), market_regime)]]
        sells == SelectSeq(checked,
                     LAMBDA pos : exit_reason(pos, quote(pos.symbol), market_regime) # "none")
        sold  == SelectSeq(sells, LAMBDA pos : pos.symbol \in accepts)
        closed == IF log_ok THEN [i \in 1..Len(sold) |-> sold[i].symbol] ELSE <<>>
        sell_orders == [i \in 1..Len(sold) |->
                          Order(sold[i].symbol, "sell", sold[i].qty, quote(sold[i].symbol).close,
                                sold[i].stop_loss,
                                exit_reason(sold[i], quote(sold[i].symbol), market_regime))]
        remaining0 == SelectSeq(open_positions, LAMBDA pos : pos.symbol \notin Range(closed))
        \* 6. evaluate new buys: the state after the first i symbols
        buy[i \in 0..Len(watchlist)] ==
            IF i = 0
            THEN [remaining |-> remaining0, executed |-> FALSE, raised |-> FALSE, orders |-> <<>>,
                  evaluated |-> 0, invalid |-> 0]
            ELSE LET prev == buy[i - 1]
                     sym  == watchlist[i]
                     h    == quote(sym)
                     current_price  == h.close
                     atr            == rolling_atr(h)
                     stop_loss      == RAdd(current_price, RMul(<<-2, 1>>, atr))
                     risk_per_share == RAdd(current_price, RMul(<<-1, 1>>, stop_loss))
                     max_risk       == Rat(eq, 100)
                     qty            == RInt(RDiv(max_risk, risk_per_share))
                     seen           == [prev EXCEPT !.evaluated = @ + 1]
                     bad            == [seen EXCEPT !.invalid = @ + 1]
                 IN  IF prev.executed \/ prev.raised THEN prev
                     ELSE IF sym \in Held(prev.remaining) THEN seen
                     ELSE IF sym \notin preferred THEN seen
                     ELSE IF ~h.some THEN seen
                     ELSE IF IsNaN(atr) THEN [bad EXCEPT !.raised = TRUE]
                     ELSE IF RLe(risk_per_share, Zero) THEN bad
                     ELSE IF qty = 0 THEN seen
                     ELSE IF sym \notin accepts THEN seen
                     ELSE IF ~log_ok
                          THEN [seen EXCEPT !.orders =
                                   Append(@, Order(sym, "buy", qty, current_price, stop_loss,
                                                   "political"))]
                     ELSE [seen EXCEPT
                              !.remaining = Append(@, [symbol |-> sym,
                                                       entry_price |-> current_price,
                                                       stop_loss |-> stop_loss, qty |-> qty]),
                              !.executed = TRUE,
                              !.orders = Append(@, Order(sym, "buy", qty, current_price,
                                                         stop_loss, "political"))]
        bought == buy[Len(watchlist)]
        \* 7. hustle mode
        hustle_stocks == SelectSeq(hustle_watchlist,
                             LAMBDA sym : quote(sym).some /\ quote(sym).len >= 20 /\ quote(sym).surge)
        hustle[i \in 0..Len(hustle_stocks)] ==
            IF i = 0 THEN [executed |-> FALSE, orders |-> <<>>]
            ELSE LET prev == hustle[i - 1]
                     sym  == hustle_stocks[i]
                     h    == quote(sym)
                     stop_loss == RAdd(h.close, RMul(<<-2, 1>>, rolling_atr(h)))
                 IN  IF prev.executed THEN prev
                     ELSE IF sym \in Held(bought.remaining) THEN prev
                     ELSE IF ~h.some THEN prev
                     ELSE IF sym \notin accepts THEN prev
                     ELSE [executed |-> log_ok,
                           orders |-> Append(prev.orders,
                                             Order(sym, "buy", 1, h.close, stop_loss, "hustle"))]
        hustled == IF bought.executed \/ bought.raised
                   THEN [executed |-> FALSE, orders |-> <<>>]
                   ELSE hustle[Len(hustle_stocks)]
    IN  [op |-> "run_daily",
         status |-> IF bought.raised THEN "error" ELSE "success",
         market_open |-> TRUE,
         market_regime |-> market_regime,
         political_regime |-> political_regime,
         equity |-> eq,
         exits |-> exits,
         closed |-> closed,
         candidates |-> Len(watchlist),
         evaluated |-> bought.evaluated,
         invalid |-> bought.invalid,
         regular_executed |-> bought.executed,
         executed |-> bought.executed \/ hustled.executed,
         orders |-> sell_orders \o bought.orders \o hustled.orders,
         learning_attempted |-> ~bought.raised /\ weekday = 4,
         learning_ran |-> ~bought.raised /\ weekday = 4
                          /\ can_import("update_signal_weights"),
         positions |-> bought.remaining]

\* the return at "Market is closed today"
run_daily_closed(file, eq) ==
    [op |-> "run_daily",
     status |-> "success",
     market_open |-> FALSE,
     market_regime |-> "neutral",
     political_regime |-> "neutral",
     equity |-> eq,
     exits |-> <<>>,
     closed |-> <<>>,
     candidates |-> 0,
     evaluated |-> 0,
     invalid |-> 0,
     regular_executed |-> FALSE,
     executed |-> FALSE,
     orders |-> <<>>,
     learning_attempted |-> FALSE,
     learning_ran |-> FALSE,
     positions |-> load_open_positions(file)]

\* is_market_open: Monday = 0 ... Sunday = 6
is_market_open(weekday) == weekday < 5

Weekdays == {0, 4, 5}

\* GET /run-daily
RunDaily ==
    /\ call.op = "idle"
    /\ \E weekday \in Weekdays :
          IF ~is_market_open(weekday)
          THEN /\ call' = run_daily_closed(positionsFile, equity)
               /\ UNCHANGED positionsFile
          ELSE \E spy \in SpyAnswers, etf \in EtfPairs,
                  wl \in WatchlistAnswers, quotes \in [DailySymbols -> HistAnswers],
                  accepts \in SUBSET DailySymbols, log_ok \in BOOLEAN :
                  /\ call' = run_daily_open(positionsFile, equity, spy, etf[1], etf[2], wl,
                                            quotes, accepts, log_ok, weekday)
                  /\ positionsFile' = [exists |-> TRUE, list |-> call'.positions]
    /\ UNCHANGED <<weightsFile, equity, priceCache, stateFile, subscription, executorPositions>>
    /\ UNCHANGED learnVars

Equities == {2000, 100000}

InitTrade ==
    /\ weightsFile = NoFile
    /\ tradeLog = [exists |-> FALSE, lines |-> <<>>]
    /\ learner = IdleLearner
    /\ runs = 0
    /\ lastRun = NoRun
    /\ prevRun = NoRun
    /\ call = IdleCall
    /\ positionsFile = NoPositions
    /\ equity \in Equities
    /\ priceCache = NoCache
    /\ stateFile = NoState
    /\ subscription = {}
    /\ executorPositions = NoNetPositions

NextTrade ==
    \/ GetPositionSize
    \/ RunDaily
    \/ ReturnFromCall

SpecTrade == InitTrade /\ [][NextTrade]_vars

(***************************************************************************)
(* Claims about generate_fused_signal                                      *)
(***************************************************************************)
Fused == call.op = "generate_fused_signal"

\* C5: no signal returned by generate_fused_signal carries regime = bear.
C5_NoBuyInBear == (Fused /\ call.result = "buy") => call.regime # "bear"

\* C6: whenever the technical label is sell, generate_fused_signal returns
\* no signal, whatever the other signals, the weights and the regime are.
C6_SellVetoes == (Fused /\ call.tech_signal = "sell") => call.result = "none"

\* C6 witness: a sell label on a candidate that is otherwise strong (political
\* and fundamentals contribute, bull regime, aligned, score over the threshold)
C6_Witness ==
    /\ Fused
    /\ call.tech_signal = "sell"
    /\ {"political", "fundamentals"} \subseteq Range(call.reasons)
    /\ call.regime = "bull"
    /\ call.topdown.aligned
    /\ RLe(<<5, 2>>, call.total_score)
    /\ call.quantity >= 1

RiskChecksPass ==
    /\ RLt(Zero, call.atr)
    /\ RLt(Zero, call.entry_price)
    /\ RLt(call.stop_loss, call.entry_price)
    /\ call.quantity >= 1

\* C7: a buy is returned only if the damped total_score is at least 2.5, and
\* a candidate with score exactly 2.5 that passes the top-down filter and the
\* risk checks is accepted.
C7_ThresholdInclusive ==
    Fused =>
        /\ call.result = "buy" => RLe(<<5, 2>>, call.total_score)
        /\ (/\ call.tech_signal # "sell"
            /\ call.total_score = <<5, 2>>
            /\ call.topdown.aligned
            /\ RiskChecksPass) => call.result = "buy"

\* C7 witness: a buy returned with total_score exactly 2.5
C7_Witness == Fused /\ call.result = "buy" /\ call.total_score = <<5, 2>>

\* the sum of the weights of a set of signals
WeightOf(sigs, s) == IF s \in sigs THEN call.weights[s] ELSE Zero
SumOfWeights(sigs) ==
    RAdd(RAdd(WeightOf(sigs, "political"), WeightOf(sigs, "sentiment")),
         RAdd(WeightOf(sigs, "fundamentals"), WeightOf(sigs, "technical")))
Damped(x) == IF call.regime = "bear" THEN Rat(x[1], 2 * x[2]) ELSE x

\* C8: without a sell label, total_score is the sum of the weights of the
\* contributing signals (halved in a bear regime), and one more contributing
\* signal never lowers it.
C8_ScoreIsMonotoneSum ==
    (Fused /\ call.tech_signal # "sell") =>
        /\ call.total_score = Damped(SumOfWeights(Range(call.reasons)))
        /\ \A s \in SignalNames \ Range(call.reasons) :
              RLe(call.total_score, Damped(SumOfWeights(Range(call.reasons) \cup {s})))

\* C8 witness: a bear-regime call without a sell label in which three signals
\* contribute and one does not
C8_Witness ==
    /\ Fused
    /\ call.tech_signal # "sell"
    /\ call.regime = "bear"
    /\ Len(call.reasons) = 3
    /\ RLt(Zero, call.total_score)

\* C9: the confidence of every returned signal is min(total_score / 4, 1)
\* and lies in [0, 1].
C9_Confidence ==
    (Fused /\ call.result = "buy") =>
        /\ RLe(call.total_score, <<4, 1>>) => RMul(call.confidence, <<4, 1>>) = call.total_score
        /\ RLt(<<4, 1>>, call.total_score) => call.confidence = One
        /\ RLe(Zero, call.confidence)
        /\ RLe(call.confidence, One)

\* C9 witness: a returned signal whose score is above 4, where the cap applies
C9_Witness == Fused /\ call.result = "buy" /\ RLt(<<4, 1>>, call.total_score)

\* C10: is_top_down_aligned returns true only if the regime is known not to
\* be bear, the sector is allow-listed and the price is above the 50-period
\* SMA; when it returns false, or a check cannot be evaluated, no signal is
\* returned.
C10_TopDownAllThree ==
    (Fused /\ call.exit # "tech_sell") =>
        /\ call.topdown.aligned =>
              /\ call.topdown_regime_known /\ call.topdown.market_regime # "bear"
              /\ sector_map(call.symbol) = "Technology"
              /\ call.topdown_sma_known /\ RLt(call.topdown_sma50, call.topdown_price)
        /\ ~call.topdown.aligned => call.result = "none"
        /\ ~(call.topdown_regime_known /\ call.topdown_sma_known) => call.result = "none"

\* q = floor(x) for a rational x
IsFloor(q, x) == RLe(<<q, 1>>, x) /\ RLt(x, <<q + 1, 1>>)

\* C11: for a returned signal, stop_loss = entry_price - 2 * ATR,
\* risk_per_share = entry_price - stop_loss and quantity = floor(1% of the
\* account capital / risk_per_share); ATR 2 and entry 100 with capital 100000
\* give stop-loss 96, risk per share 4 and quantity 250.
C11_RiskSizing ==
    (Fused /\ call.result = "buy") =>
        /\ RAdd(call.stop_loss, RMul(<<2, 1>>, call.atr)) = call.entry_price
        /\ RAdd(call.risk_per_share, call.stop_loss) = call.entry_price
        /\ IsFloor(call.quantity, RDiv(Rat(account_capital, 100), call.risk_per_share))
        /\ (call.atr = <<2, 1>> /\ call.entry_price = <<100, 1>>) =>
               /\ call.stop_loss = <<96, 1>>
               /\ call.risk_per_share = <<4, 1>>
               /\ call.quantity = 250

\* C11 witness: a signal returned for ATR 2 and entry price 100
C11_Witness ==
    /\ Fused /\ call.result = "buy"
    /\ call.atr = <<2, 1>> /\ call.entry_price = <<100, 1>>
    /\ call.quantity = 250

\* C12: generate_fused_signal returns no signal when ATR <= 0, the entry
\* price <= 0, risk_per_share <= 0 or the quantity is 0; every returned
\* signal has quantity >= 1, entry price > 0 and stop-loss below the entry
\* price.
C12_RejectsInvalidRisk ==
    Fused =>
        /\ (\/ RLe(call.atr, Zero)
            \/ RLe(call.entry_price, Zero)
            \/ RLe(call.risk_per_share, Zero)
            \/ call.quantity = 0) => call.result = "none"
        /\ call.result = "buy" =>
              /\ call.quantity >= 1
              /\ RLt(Zero, call.entry_price)
              /\ RLt(call.stop_loss, call.entry_price)

\* C12 witness: a candidate that passes the veto, the filter and the
\* threshold, has a valid ATR and entry price, and is rejected for quantity 0
C12_Witness ==
    /\ Fused
    /\ call.exit = "qty"
    /\ RLt(Zero, call.atr) /\ RLt(Zero, call.entry_price)
    /\ call.quantity = 0 /\ call.result = "none"

(***************************************************************************)
(* Claims about risk sizing                                                *)
(***************************************************************************)
\* quantity times (entry price - stop-loss) is at most 1% of equity
WithinOnePercent(qty, entry_price, stop_loss, eq) ==
    RLe(RMul(<<qty, 1>>, RAdd(entry_price, RMul(<<-1, 1>>, stop_loss))), RMul(eq, <<1, 100>>))

\* C3: for every buy the system sizes or submits (generate_fused_signal,
\* get_position_size, the regular and the hustle buy of run_daily), quantity
\* times risk-per-share is at most 1% of account equity.
C3_RiskAtMostOnePercent ==
    /\ (Fused /\ call.result = "buy") =>
          WithinOnePercent(call.quantity, call.entry_price, call.stop_loss,
                           <<account_capital, 1>>)
    /\ (call.op = "get_position_size" /\ call.equity_ok) =>
          RLe(RMul(<<call.quantity, 1>>, call.risk_per_share), RMul(call.equity, <<1, 100>>))
    /\ call.op = "run_daily" =>
          \A i \in 1..Len(call.orders) :
              call.orders[i].side = "buy" =>
                  WithinOnePercent(call.orders[i].qty, call.orders[i].price,
                                   call.orders[i].stop_loss, <<call.equity, 1>>)

(***************************************************************************)
(* Paper trades (app/signals/fusion.py)                                    *)
(***************************************************************************)
\* signals handed to execute_paper_trade: the dict generate_fused_signal
\* returns, and one whose quantity is 0
PaperSignals ==
    { [symbol |-> sym, quantity |-> q, entry_price |-> <<100, 1>>, stop_loss |-> <<96, 1>>] :
        sym \in Symbols, q \in {0, 250} }

\* exit signals handed to execute_paper_sell: the dict generate_exit_signal
\* returns has no "symbol" key (has_symbol = FALSE) unless the caller adds it
ExitSignals ==
    { [symbol |-> sym, has_symbol |-> h, qty |-> 250, pnl |-> pnl] :
        sym \in Symbols, h \in BOOLEAN, pnl \in {-5, 5} }

\* the lines execute_paper_trade and execute_paper_sell append to the log:
\* neither has a "signals" key, the buy line has no "pnl" key
paper_buy_line == Line(TRUE, {}, 0, {})
paper_sell_line_with_signals(pnl) == Line(TRUE, {"pnl", "signals"}, pnl, {"technical"})

paper_sell_line(pnl) == Line(TRUE, {"pnl"}, pnl, {})

\* fusion.execute_paper_trade(signal); notifier = fusion.send_sync has been
\* set by the caller (it is None in the module, and calling it raises into
\* the except clause of the function)
ExecutePaperTrade ==
    /\ call.op = "idle"
    /\ Len(tradeLog.lines) < MaxLog
    /\ \E signal \in PaperSignals, notifier \in BOOLEAN :
          LET executed  == signal.quantity # 0 /\ notifier
              positions == Append(load_open_positions(positionsFile),
                                  [symbol |-> signal.symbol, entry_price |-> signal.entry_price,
                                   stop_loss |-> signal.stop_loss, qty |-> signal.quantity])
          IN  /\ call' = [op |-> "execute_paper_trade", symbol |-> signal.symbol,
                          quantity |-> signal.quantity, executed |-> executed]
              /\ IF executed
                 THEN /\ tradeLog' = [exists |-> TRUE,
                                      lines |-> Append(tradeLog.lines, paper_buy_line)]
                      /\ positionsFile' = [exists |-> TRUE, list |-> positions]
                 ELSE UNCHANGED <<tradeLog, positionsFile>>
    /\ UNCHANGED <<weightsFile, learner, runs, lastRun, prevRun, equity, priceCache, stateFile, subscription, executorPositions>>

\* fusion.execute_paper_sell(exit_signal): it appends the sell to the log and
\* does not touch the open-positions store
ExecutePaperSell ==
    /\ call.op = "idle"
    /\ Len(tradeLog.lines) < MaxLog
    /\ \E exit_signal \in ExitSignals, notifier \in BOOLEAN :
          LET executed == exit_signal.has_symbol /\ notifier
          IN  /\ call' = [op |-> "execute_paper_sell", symbol |-> exit_signal.symbol,
                          quantity |-> exit_signal.qty, executed |-> executed]
              /\ IF executed
                 THEN tradeLog' = [exists |-> TRUE,
                                  lines |-> Append(tradeLog.lines,
                                                   paper_sell_line(exit_signal.pnl))]
                 ELSE UNCHANGED tradeLog
    /\ UNCHANGED <<weightsFile, learner, runs, lastRun, prevRun, positionsFile, equity,
                   priceCache, stateFile, subscription, executorPositions>>

InitPaper ==
    /\ weightsFile = NoFile
    /\ tradeLog = [exists |-> FALSE, lines |-> <<>>]
    /\ learner = IdleLearner
    /\ runs = 0
    /\ lastRun = NoRun
    /\ prevRun = NoRun
    /\ call = IdleCall
    /\ positionsFile = NoPositions
    /\ equity = 100000
    /\ priceCache = NoCache
    /\ stateFile = NoState
    /\ subscription = {}
    /\ executorPositions = NoNetPositions

NextPaper ==
    \/ ExecutePaperTrade
    \/ ExecutePaperSell
    \/ ReturnFromCall

SpecPaper == InitPaper /\ [][NextPaper]_vars

(***************************************************************************)
(* Claims about the open-positions store                                   *)
(***************************************************************************)
\* the side of the last order of a run_daily cycle for a symbol
LastOrderSide(orders, sym) ==
    LET idx == {i \in 1..Len(orders) : orders[i].symbol = sym}
    IN  IF idx = {} THEN "none"
        ELSE orders[CHOOSE i \in idx : \A j \in idx : j <= i].side

\* C19: after a run_daily cycle, an execute_paper_trade or an
\* execute_paper_sell, the open-positions store has an entry for every symbol
\* just bought and none for a symbol just sold.
C19_StoreTracksTrades ==
    /\ call.op = "run_daily" =>
          \A i \in 1..Len(call.orders) :
              LET sym == call.orders[i].symbol
              IN  sym \in Held(load_open_positions(positionsFile))
                      <=> LastOrderSide(call.orders, sym) = "buy"
    /\ (call.op = "execute_paper_trade" /\ call.executed) =>
          call.symbol \in Held(load_open_positions(positionsFile))
    /\ (call.op = "execute_paper_sell" /\ call.executed) =>
          call.symbol \notin Held(load_open_positions(positionsFile))

\* C20: the open-positions store never holds two entries with the same
\* symbol.
C20_NoDuplicatePositions ==
    LET list == load_open_positions(positionsFile)
    IN  \A i, j \in 1..Len(list) : list[i].symbol = list[j].symbol => i = j

(***************************************************************************)
(* Market regime detector (app/analysis/market_regime.py)                  *)
(***************************************************************************)
MaxTail == 6

RECURSIVE SumSeq(_)
SumSeq(s) == IF s = <<>> THEN 0 ELSE Head(s) + SumSeq(Tail(s))

\* compute_rsi(prices, window)
compute_rsi(prices, window) ==
    IF Len(prices) < window + 1 THEN <<50, 1>>
    ELSE LET deltas == [i \in 1..(Len(prices) - 1) |-> prices[i + 1] - prices[i]]
             gains  == [i \in DOMAIN deltas |-> IF deltas[i] > 0 THEN deltas[i] ELSE 0]
             losses == [i \in DOMAIN deltas |-> IF deltas[i] < 0 THEN -deltas[i] ELSE 0]
             avg_gain == Rat(SumSeq(SubSeq(gains, 1, window)), window)
             avg_loss == Rat(SumSeq(SubSeq(losses, 1, window)), window)
         IN  IF avg_loss = Zero THEN <<100, 1>>
             ELSE LET rs == RDiv(avg_gain, avg_loss)
                  IN  RAdd(<<100, 1>>, RMul(<<-1, 1>>, RDiv(<<100, 1>>, RAdd(One, rs))))

classify_regime_by_price(current_price, sma, rsi) ==
    IF RLt(sma, current_price) THEN "bull"
    ELSE IF RLt(current_price, sma) THEN "bear"
    ELSE "neutral"

\* the if / elif / else of detect_regime_by_symbol
classify_regime(current_price, sma, rsi) ==
    IF RLt(sma, current_price) /\ RLt(<<50, 1>>, rsi) THEN "bull"
    ELSE IF RLt(current_price, sma) /\ RLt(rsi, <<40, 1>>) THEN "bear"
    ELSE "neutral"

\* detect_regime_by_symbol on the answer of the historical-price endpoint:
\* ok = FALSE when the request raised, historical = the answer has the key
detect_regime_by_symbol(a) ==
    IF ~a.ok \/ ~a.historical \/ Len(a.prices) < 20
    THEN [op |-> "detect_regime_by_symbol", fetched |-> a.ok /\ a.historical,
          prices |-> a.prices, current_price |-> Zero, sma |-> Zero, rsi |-> Zero,
          regime |-> "neutral"]
    ELSE LET prices        == a.prices
             current_price == prices[Len(prices)]
             half          == Len(prices) \div 2
             sma_window    == IF 50 < half THEN 50 ELSE half
             sma == Rat(SumSeq(SubSeq(prices, Len(prices) - sma_window + 1, Len(prices))),
                        sma_window)
             rsi == compute_rsi(prices, 14)
         IN  [op |-> "detect_regime_by_symbol", fetched |-> TRUE,
              prices |-> prices, current_price |-> <<current_price, 1>>, sma |-> sma,
              rsi |-> rsi, regime |-> classify_regime(<<current_price, 1>>, sma, rsi)]

\* the 14 first day-to-day changes of a series: rising, falling, flat, and
\* mixed with RSI 50, 40, 25 and 60
HeadDeltas ==
    { [i \in 1..14 |-> 1], [i \in 1..14 |-> -1], [i \in 1..14 |-> 0],
      [i \in 1..14 |-> IF i % 2 = 1 THEN 1 ELSE -1],
      [i \in 1..14 |-> IF i = 1 THEN 2 ELSE IF i = 2 THEN -3 ELSE 0],
      [i \in 1..14 |-> IF i = 1 THEN 1 ELSE IF i = 2 THEN -3 ELSE 0],
      [i \in 1..14 |-> IF i = 1 THEN 3 ELSE IF i = 2 THEN -2 ELSE 0] }

\* the 15 closes that start at 100 and change by d
HeadPrices(d) == [i \in 1..15 |-> 100 + SumSeq(SubSeq(d, 1, i - 1))]

TailPrices == {90, 100, 110}

\* a series of 101 closes: the 15 first ones, 85 days at 100 and a last close
LongPrices(d, last) == HeadPrices(d) \o [i \in 1..85 |-> 100] \o <<last>>

\* answers of the endpoint: a failed request, an answer without the key,
\* series of 15 to 15 + MaxTail closes, and series of 101 closes
RegimeAnswers ==
    { [ok |-> FALSE, historical |-> FALSE, prices |-> <<>>],
      [ok |-> TRUE,  historical |-> FALSE, prices |-> <<>>],
      [ok |-> TRUE,  historical |-> TRUE,  prices |-> <<>>] }
    \cup { [ok |-> TRUE, historical |-> TRUE, prices |-> HeadPrices(d) \o t] :
             d \in HeadDeltas, t \in UNION {[1..k -> TailPrices] : k \in 0..MaxTail} }
    \cup { [ok |-> TRUE, historical |-> TRUE, prices |-> LongPrices(d, t)] :
             d \in HeadDeltas, t \in TailPrices }

DetectRegime ==
    /\ call.op = "idle"
    /\ \E a \in RegimeAnswers : call' = detect_regime_by_symbol(a)
    /\ UNCHANGED <<weightsFile, positionsFile, equity, priceCache, stateFile, subscription, executorPositions>>
    /\ UNCHANGED learnVars

InitRegime ==
    /\ weightsFile = NoFile
    /\ tradeLog = [exists |-> FALSE, lines |-> <<>>]
    /\ learner = IdleLearner
    /\ runs = 0
    /\ lastRun = NoRun
    /\ prevRun = NoRun
    /\ call = IdleCall
    /\ positionsFile = NoPositions
    /\ equity = 100000
    /\ priceCache = NoCache
    /\ stateFile = NoState
    /\ subscription = {}
    /\ executorPositions = NoNetPositions

NextRegime ==
    \/ DetectRegime
    \/ ReturnFromCall

SpecRegime == InitRegime /\ [][NextRegime]_vars

(***************************************************************************)
(* Claims about the market regime detector                                 *)
(***************************************************************************)
Detected == call.op = "detect_regime_by_symbol"

\* C13: detect_regime_by_symbol returns one of bull, bear, neutral: neutral
\* when the fetch failed or fewer than 20 prices came back, otherwise bull iff
\* last price > SMA and RSI > 50, bear iff last price < SMA and RSI < 40, and
\* neutral in the remaining cases.
C13_RegimeClassification ==
    Detected =>
        /\ call.regime \in {"bull", "bear", "neutral"}
        /\ (~call.fetched \/ Len(call.prices) < 20) => call.regime = "neutral"
        /\ (call.fetched /\ Len(call.prices) >= 20) =>
              LET up   == RLt(call.sma, call.current_price) /\ RLt(<<50, 1>>, call.rsi)
                  down == RLt(call.current_price, call.sma) /\ RLt(call.rsi, <<40, 1>>)
              IN  /\ call.regime = "bull" <=> up
                  /\ call.regime = "bear" <=> down
                  /\ call.regime = "neutral" <=> (~up /\ ~down)

\* C13 witness: a series of at least 20 prices whose last price is below the
\* SMA while the RSI is exactly 40, which is neutral and not bear
C13_Witness ==
    /\ Detected /\ call.fetched /\ Len(call.prices) >= 20
    /\ RLt(call.current_price, call.sma)
    /\ call.rsi = <<40, 1>>
    /\ call.regime = "neutral"

\* what fusion.get_market_regime and main.get_market_regime read from a
\* series of closes: its length, the last close and the sum of the last 50
spy_answer(fetched, prices) ==
    [ok |-> fetched, len |-> Len(prices),
     last |-> IF prices = <<>> THEN 0 ELSE prices[Len(prices)],
     sum |-> IF Len(prices) < 50 THEN 0
             ELSE SumSeq(SubSeq(prices, Len(prices) - 49, Len(prices)))]

\* C25: the regime used by generate_fused_signal, is_top_down_aligned and
\* run_daily (their get_market_regime) agrees with the detector's rule on the
\* same price series: bear only when last price < SMA and RSI < 40, neutral
\* whenever neither the bull nor the bear condition holds.
C25_RegimesAgree ==
    (Detected /\ call.fetched /\ Len(call.prices) >= 50) =>
        /\ get_market_regime(spy_answer(call.fetched, call.prices)) = call.regime
        /\ main_get_market_regime(spy_answer(call.fetched, call.prices)) = call.regime

(***************************************************************************)
(* Kill switch (app/utils/telegram_bot.py, app/utils/trading_state.py)     *)
(***************************************************************************)
ALLOWED_CHAT_ID == "7856499764"

\* load_state: the "enabled" entry of the state file, True when the file
\* cannot be read
load_state(file) == IF file.exists THEN file.enabled ELSE TRUE

\* save_state: the file it leaves
save_state(enabled) == [exists |-> TRUE, enabled |-> enabled]

\* bodies of the POST /webhook requests: some = FALSE is an empty body
NoData == [some |-> FALSE, chat_id |-> "None", text |-> ""]
WebhookData ==
    {NoData} \cup [some : {TRUE}, chat_id : {ALLOWED_CHAT_ID, "42"},
                   text : {"/pause", "/resume", "/status", "hello"}]

\* telegram_bot.webhook: the status it answers and the state file it leaves
webhook(data, file) ==
    LET current_state == load_state(file)
        answer(status, state) ==
            [op |-> "webhook", data |-> data, status |-> status, state |-> state]
    IN  IF ~data.some THEN answer("no data", file)
        ELSE IF data.chat_id # ALLOWED_CHAT_ID THEN answer("unauthorized", file)
        ELSE IF data.text = "/pause"
             THEN answer("paused", IF ~current_state THEN file ELSE save_state(FALSE))
        ELSE IF data.text = "/resume"
             THEN answer("resumed", IF current_state THEN file ELSE save_state(TRUE))
        ELSE IF data.text = "/status" THEN answer("status_sent", file)
        ELSE answer("ignored", file)

\* POST /webhook
Webhook ==
    /\ call.op = "idle"
    /\ \E data \in WebhookData :
          /\ call' = webhook(data, stateFile)
          /\ stateFile' = call'.state
    /\ UNCHANGED <<weightsFile, positionsFile, equity, priceCache, subscription,
                   executorPositions>>
    /\ UNCHANGED learnVars

InitSwitch ==
    /\ weightsFile = NoFile
    /\ tradeLog = [exists |-> FALSE, lines |-> <<>>]
    /\ learner = IdleLearner
    /\ runs = 0
    /\ lastRun = NoRun
    /\ prevRun = NoRun
    /\ call = IdleCall
    /\ positionsFile = NoPositions
    /\ equity = 100000
    /\ priceCache = NoCache
    /\ stateFile = NoState
    /\ subscription = {}
    /\ executorPositions = NoNetPositions

NextSwitch ==
    \/ Webhook
    \/ RunDaily
    \/ ReturnFromCall

SpecSwitch == InitSwitch /\ [][NextSwitch]_vars

\* the state file says paused exactly when the last /pause or /resume the
\* webhook processed from the allowed chat was a /pause
Paused == ~load_state(stateFile)

BuyOrders(orders) == SelectSeq(orders, LAMBDA o : o.side = "buy")

\* C21: after the webhook has processed /pause from the allowed chat, and
\* until it has processed a /resume from the allowed chat, a trading cycle
\* (run_daily) executes no new trade.
C21_PausedNoTrade ==
    (call.op = "run_daily" /\ Paused) => BuyOrders(call.orders) = <<>>


(***************************************************************************)
(* Claims about the daily trading cycle                                    *)
(***************************************************************************)
Cycle == call.op = "run_daily"

\* C22: when run_daily runs on a Friday and the cycle has logged trades, the
\* weight learner runs on those trades (and the weight map it writes is the
\* one the next generate_fused_signal call loads).
C22_FridayLearning ==
    (Cycle /\ call.learning_attempted /\ call.orders # <<>>)
        => (call.learning_ran /\ main_trade_log = learner_trade_log)


\* C23: generate_fused_signal evaluates the top-down filter
\* (is_top_down_aligned, with its regime and fundamentals fetches) only for
\* candidates whose total_score has already reached the 2.5 threshold.
C23_TopDownAfterThreshold ==
    (Fused /\ call.topdown_evaluated) => passes_threshold(call.total_score)


\* C24: in a run_daily cycle a candidate with invalid risk geometry
\* (non-positive or unavailable ATR, entry price or risk-per-share) is skipped
\* on its own: the remaining instruments of the cycle are still evaluated
\* (up to the first executed buy) and the cycle completes with a success status.
C24_InvalidCandidateSkipped ==
    (Cycle /\ call.market_open /\ call.invalid > 0)
        => /\ call.status = "success"
           /\ call.regular_executed \/ call.evaluated = call.candidates


(***************************************************************************)
(* Exit signals (app/signals/fusion.py)                                    *)
(***************************************************************************)
\* answers of the FMP quote endpoint: some = FALSE is an empty answer
QuoteAnswers == { [some |-> FALSE, price |-> Zero],
                  [some |-> TRUE,  price |-> Zero],
                  [some |-> TRUE,  price |-> <<86, 1>>],
                  [some |-> TRUE,  price |-> <<96, 1>>],
                  [some |-> TRUE,  price |-> <<100, 1>>] }

fusion_exit_reason_regime_first(current_price, stop_loss, tech_signal, regime) ==
    IF RLe(current_price, stop_loss) THEN "stop_loss"
    ELSE IF regime = "bear" THEN "market_regime"
    ELSE IF tech_signal = "sell" THEN "profit_take"
    ELSE "none"

\* the three tests of generate_exit_signal, in its order
fusion_exit_reason(current_price, stop_loss, tech_signal, regime) ==
    IF RLe(current_price, stop_loss) THEN "stop_loss"
    ELSE IF tech_signal = "sell" THEN "profit_take"
    ELSE IF regime = "bear" THEN "market_regime"
    ELSE "none"

\* fusion.generate_exit_signal(symbol, entry_price, stop_loss, qty) with the
\* answers of its collaborators: raised = the pnl division by a zero entry
\* price ended in the except branch
generate_exit_signal(pos, quote, rsi, spy) ==
    LET current_price == IF quote.some THEN quote.price ELSE Zero
        tech_signal   == get_technical_signal(rsi)
        regime        == get_market_regime(spy)
        reason        == IF RLe(current_price, Zero) THEN "none"
                         ELSE fusion_exit_reason(current_price, pos.stop_loss, tech_signal, regime)
        raised        == reason # "none" /\ pos.entry_price = Zero
    IN  [op |-> "generate_exit_signal",
         symbol |-> pos.symbol,
         entry_price |-> pos.entry_price,
         stop_loss |-> pos.stop_loss,
         qty |-> pos.qty,
         current_price |-> current_price,
         tech_signal |-> tech_signal,
         regime |-> regime,
         raised |-> raised,
         reason |-> IF raised THEN "none" ELSE reason,
         result |-> IF reason # "none" /\ ~raised THEN "sell" ELSE "none"]

\* a call of generate_exit_signal for a position of the store
GenerateExitSignal ==
    /\ call.op = "idle"
    /\ \E pos \in Range(load_open_positions(positionsFile)),
          quote \in QuoteAnswers, rsi \in RsiAnswers, spy \in SpyAnswers :
          call' = generate_exit_signal(pos, quote, rsi, spy)
    /\ UNCHANGED <<weightsFile, positionsFile, equity, priceCache, stateFile, subscription, executorPositions>>
    /\ UNCHANGED learnVars

InitExit ==
    /\ weightsFile = NoFile
    /\ tradeLog = [exists |-> FALSE, lines |-> <<>>]
    /\ learner = IdleLearner
    /\ runs = 0
    /\ lastRun = NoRun
    /\ prevRun = NoRun
    /\ call = IdleCall
    /\ positionsFile = NoPositions
    /\ equity = 100000
    /\ priceCache = NoCache
    /\ stateFile = NoState
    /\ subscription = {}
    /\ executorPositions = NoNetPositions

NextExit ==
    \/ RunDaily
    \/ GenerateExitSignal
    \/ ReturnFromCall

SpecExit == InitExit /\ [][NextExit]_vars

ExitChecked == call.op = "generate_exit_signal"

\* the exit rule of the claim
ExitRule(current_price, stop_loss, tech_signal, regime) ==
    CASE RLe(current_price, stop_loss) -> "stop_loss"
      [] ~RLe(current_price, stop_loss) /\ tech_signal = "sell" -> "profit_take"
      [] ~RLe(current_price, stop_loss) /\ tech_signal # "sell" /\ regime = "bear"
            -> "market_regime"
      [] OTHER -> "none"

\* C26: for an open position with a valid current price the exit check gives
\* stop_loss when current price <= stop_loss, else profit_take when the
\* technical label is sell, else market_regime when the regime is bear, and no
\* exit otherwise; generate_exit_signal and the exit loop of run_daily give
\* the same reason for the same inputs.
C26_ExitReasons ==
    /\ (ExitChecked /\ RLt(Zero, call.current_price)) =>
          /\ call.reason = ExitRule(call.current_price, call.stop_loss,
                                    call.tech_signal, call.regime)
          /\ call.reason = exit_reason_of(call.current_price, call.stop_loss,
                                          call.tech_signal, call.regime)
          /\ call.result = "sell" <=> call.reason # "none"
    /\ Cycle =>
          \A i \in 1..Len(call.exits) :
              LET e == call.exits[i]
              IN  /\ e.reason = ExitRule(e.current_price, e.stop_loss, e.tech_signal,
                                         call.market_regime)
                  /\ e.reason = fusion_exit_reason(e.current_price, e.stop_loss,
                                                   e.tech_signal, call.market_regime)
                  /\ \A j \in 1..Len(call.orders) :
                        (call.orders[j].side = "sell" /\ call.orders[j].symbol = e.symbol)
                            => call.orders[j].reason = e.reason /\ e.reason # "none"

\* C26 witness: generate_exit_signal for a position above its stop, with a
\* technical sell in a bear market, answers profit_take
C26_Witness ==
    /\ ExitChecked
    /\ RLt(call.stop_loss, call.current_price)
    /\ call.tech_signal = "sell" /\ call.regime = "bear"
    /\ call.result = "sell" /\ call.reason = "profit_take"


(***************************************************************************)
(* Order executor (app/execution/executor.py)                              *)
(***************************************************************************)
MaxMessages == 2

\* a confidence entry of a message: absent, a number, or a string
NoConfidence == [kind |-> "absent", value |-> Zero]
Conf(n, d) == [kind |-> "number", value |-> <<n, d>>]
TextConfidence == [kind |-> "text", value |-> Zero]

\* a Pub/Sub message: json = the payload parses, keys = the keys it has;
\* price = Zero stands for a price that is not a number
Msg(json, keys, signal, price, confidence) ==
    [json |-> json, keys |-> keys, symbol |-> "NVDA", signal |-> signal,
     price |-> price, confidence |-> confidence]

AllKeys == {"symbol", "signal", "price"}

Messages ==
    { Msg(FALSE, {}, "", Zero, NoConfidence),
      Msg(TRUE, {"symbol", "signal"}, "Buy", Zero, Conf(9, 10)),
      Msg(TRUE, AllKeys, "Buy",  <<100, 1>>, NoConfidence),
      Msg(TRUE, AllKeys, "Buy",  <<100, 1>>, Conf(54, 100)),
      Msg(TRUE, AllKeys, "Buy",  <<100, 1>>, Conf(55, 100)),
      Msg(TRUE, AllKeys, "Buy",  <<100, 1>>, TextConfidence),
      Msg(TRUE, AllKeys, "Buy",  Zero,       Conf(9, 10)),
      Msg(TRUE, AllKeys, "Sell", <<100, 1>>, Conf(9, 10)),
      Msg(TRUE, AllKeys, "Hold", <<100, 1>>, Conf(9, 10)),
      Msg(TRUE, AllKeys, "Short", <<100, 1>>, Conf(9, 10)) }

\* get_position_size(symbol, risk_percent=RISK_PERCENT) can be called with
\* this number of positional arguments
position_size_args_ok(n) == n \in 1..2

execute_order_propagates(failed) == failed

\* execute_order catches every exception of its body and returns
execute_order_raises(failed) == FALSE

\* executor.execute_order(symbol, signal, price): sized = the call
\* get_position_size(symbol, API_KEY, SECRET_KEY) returned, accepted = the
\* broker took the order; the quantity, the price cache and _positions it leaves
execute_order(m, cache, positions, fresh, latest, account, accepted) ==
    LET sized     == position_size_args_ok(3)
        sizing    == get_position_size(cache, fresh, latest, account)
        qty       == IF sizing.quantity < 1 THEN 1 ELSE sizing.quantity
        priced    == m.price # Zero
        submitted == sized /\ priced /\ accepted
        held      == IF m.symbol \in DOMAIN positions THEN positions[m.symbol] ELSE 0
        change    == IF m.signal = "Buy" THEN qty ELSE -qty
    IN  [sized |-> sized,
         submitted |-> submitted,
         failed |-> ~submitted,
         raised |-> execute_order_raises(~submitted),
         cache |-> IF sized THEN sizing.cache ELSE cache,
         positions |-> IF submitted
                       THEN [s \in DOMAIN positions \cup {m.symbol} |->
                                IF s = m.symbol THEN held + change ELSE positions[s]]
                       ELSE positions]

\* executor.signal_callback(message): what it parsed, whether it called
\* execute_order, and how often it called message.ack() and message.nack()
signal_callback(m, cache, positions, fresh, latest, account, accepted) ==
    LET parsed     == m.json /\ AllKeys \subseteq m.keys
        confidence == IF m.confidence.kind = "absent" THEN Half ELSE m.confidence.value
        compared   == parsed /\ m.confidence.kind # "text"
        skipped    == compared /\ RLt(confidence, <<55, 100>>)
        executes   == compared /\ ~skipped /\ m.signal \in {"Buy", "Sell"}
        order      == execute_order(m, cache, positions, fresh, latest, account, accepted)
        raised     == ~compared \/ (executes /\ order.raised)
    IN  [op |-> "signal_callback",
         message |-> m,
         parsed |-> parsed,
         skipped |-> skipped,
         executed |-> executes,
         submitted |-> executes /\ order.submitted,
         failed |-> executes /\ order.failed,
         raised |-> raised,
         acks |-> IF raised THEN 0 ELSE 1,
         nacks |-> IF raised THEN 1 ELSE 0,
         cache |-> IF executes THEN order.cache ELSE cache,
         positions |-> IF executes THEN order.positions ELSE positions]

\* a publisher puts a message on the topic
PublishSignal ==
    /\ call.op = "idle"
    /\ Cardinality(subscription) < MaxMessages
    /\ \E m \in Messages \ subscription : subscription' = subscription \cup {m}
    /\ UNCHANGED <<weightsFile, call, positionsFile, equity, priceCache, stateFile,
                   executorPositions>>
    /\ UNCHANGED learnVars

\* Pub/Sub delivers an outstanding message to signal_callback: an acked
\* message leaves the subscription, a nacked one stays for redelivery
SignalCallback ==
    /\ call.op = "idle"
    /\ \E m \in subscription, fresh \in BOOLEAN, latest \in PriceAnswers,
          account \in EquityAnswers, accepted \in BOOLEAN :
          /\ call' = signal_callback(m, priceCache, executorPositions, fresh, latest,
                                     account, accepted)
          /\ priceCache' = call'.cache
          /\ executorPositions' = call'.positions
          /\ subscription' = IF call'.acks > 0 THEN subscription \ {m} ELSE subscription
    /\ UNCHANGED <<weightsFile, positionsFile, equity, stateFile>>
    /\ UNCHANGED learnVars

InitExecutor ==
    /\ weightsFile = NoFile
    /\ tradeLog = [exists |-> FALSE, lines |-> <<>>]
    /\ learner = IdleLearner
    /\ runs = 0
    /\ lastRun = NoRun
    /\ prevRun = NoRun
    /\ call = IdleCall
    /\ positionsFile = NoPositions
    /\ equity = 100000
    /\ priceCache = NoCache
    /\ stateFile = NoState
    /\ subscription = {}
    /\ executorPositions = NoNetPositions

NextExecutor ==
    \/ PublishSignal
    \/ SignalCallback
    \/ ReturnFromCall

SpecExecutor == InitExecutor /\ [][NextExecutor]_vars

Settled == call.op = "signal_callback"

\* the payload cannot be parsed: not JSON, or a key is missing
Unparseable(m) == ~m.json \/ ~(AllKeys \subseteq m.keys)

\* the confidence the callback compares with 0.55
ConfidenceOf(m) == IF m.confidence.kind = "absent" THEN <<1, 2>> ELSE m.confidence.value

\* C27: signal_callback settles every message exactly once: it acks a
\* message with confidence below 0.55 without executing, acks a
\* Buy/Sell/Hold/unknown message after handling it (also when execute_order
\* itself failed, so a failed order is never redelivered), and nacks only when
\* parsing or handling raises.
C27_SettledOnce ==
    Settled =>
        LET m       == call.message
            broken  == Unparseable(m) \/ m.confidence.kind = "text"
            low     == ~broken /\ RLt(ConfidenceOf(m), <<55, 100>>)
        IN  /\ call.acks + call.nacks = 1
            /\ low => (call.acks = 1 /\ ~call.executed)
            /\ (~broken /\ ~low) =>
                  /\ call.acks = 1
                  /\ call.executed <=> m.signal \in {"Buy", "Sell"}
            /\ call.nacks = 1 <=> broken
            /\ call.acks = 1 <=> m \notin subscription

\* C27 witness: a Buy with confidence 0.55 whose order failed is acked and
\* has left the subscription
C27_Witness ==
    /\ Settled
    /\ call.message.signal = "Buy" /\ call.message.confidence = Conf(55, 100)
    /\ call.executed /\ call.failed
    /\ call.acks = 1 /\ call.nacks = 0
    /\ call.message \notin subscription


\* C28: each run_daily cycle submits at most one successful buy order to
\* the broker: the regular buy loop stops after its first accepted order, and
\* the hustle buy is attempted only if no regular buy was accepted, stopping
\* after its first accepted order.
C28_AtMostOneBuy ==
    Cycle => Len(BuyOrders(call.orders)) <= 1


(***************************************************************************)
(* Claims about signals without trades                                     *)
(***************************************************************************)
\* C30: a signal that was active in no trade of the learning window is
\* treated as having win rate 0 and receives the reducing factor 0.9, the
\* same as a signal that lost every trade it was active in.
C30_InactiveSignalReduced ==
    lastRun.wrote =>
        \A sig \in SignalNames :
            /\ ActiveTrades(lastRun.log, sig) = {} =>
                  /\ lastRun.counts[sig].count = 0
                  /\ lastRun.adjustments[sig] = <<9, 10>>
            /\ (ActiveTrades(lastRun.log, sig) # {} /\ WinningTrades(lastRun.log, sig) = {}) =>
                  lastRun.adjustments[sig] = <<9, 10>>

\* C30 witness: a run in which one signal was active in no trade and gets
\* 0.9 while another signal won its trades and gets 1.1
C30_Witness ==
    /\ lastRun.wrote
    /\ \E s, t \in SignalNames :
          /\ ActiveTrades(lastRun.log, s) = {} /\ lastRun.adjustments[s] = <<9, 10>>
          /\ WinningTrades(lastRun.log, t) # {} /\ lastRun.adjustments[t] = <<11, 10>>


(***************************************************************************)
(* The learner on a log written by the paper trader                        *)
(***************************************************************************)
\* a weight store whose four weights are equal but not 1.0
EqualStore == FileOf([s \in SignalNames |-> Half])

\* execute_paper_trade and execute_paper_sell fill the log that
\* update_strategy_weights reads; the store holds the unequal weights of an
\* earlier run or four equal weights (a missing store reads as four equal
\* weights too)
InitPaperLearn ==
    /\ weightsFile \in {FileOf(StoredWeights), EqualStore}
    /\ tradeLog = [exists |-> FALSE, lines |-> <<>>]
    /\ learner = IdleLearner
    /\ runs = 0
    /\ lastRun = NoRun
    /\ prevRun = NoRun
    /\ call = IdleCall
    /\ positionsFile = NoPositions
    /\ equity = 100000
    /\ priceCache = NoCache
    /\ stateFile = NoState
    /\ subscription = {}
    /\ executorPositions = NoNetPositions

NextPaperLearn ==
    \/ ExecutePaperTrade
    \/ ExecutePaperSell
    \/ UpdateStrategyWeights
    \/ SaveWeightsClose
    \/ ReturnFromCall

SpecPaperLearn == InitPaperLearn /\ [][NextPaperLearn]_vars

\* a log made only of lines of execute_paper_trade and execute_paper_sell
PaperOnly(log) ==
    /\ log # <<>>
    /\ \A i \in 1..Len(log) :
          log[i] \in {paper_buy_line} \cup {paper_sell_line(e.pnl) : e \in ExitSignals}

EqualWeights(w) == \A s, t \in DOMAIN w : w[s] = w[t]

\* C29: on a trade log made only of records of execute_paper_trade and
\* execute_paper_sell, update_strategy_weights applies the same factor to all
\* four signals; from equal weights it saves weights that are all exactly 1.0,
\* and the relative weights do not change.
C29_PaperLogUniformFactor ==
    (lastRun.wrote /\ PaperOnly(lastRun.log)) =>
        /\ EqualWeights(lastRun.adjustments)
        /\ EqualWeights(lastRun.before) => \A s \in SignalNames : lastRun.after[s] = One
        /\ \A s, t \in SignalNames :
              RMul(lastRun.after[s], lastRun.before[t]) = RMul(lastRun.after[t], lastRun.before[s])
        /\ (learner.pc = "idle" /\ lastRun.n = runs) => PersistedWeights = lastRun.after

\* C29 witness: the learner has saved after reading a paper log that holds a
\* profitable sell, once from equal weights other than 1.0 (saved as 1.0)
C29_Witness ==
    /\ lastRun.wrote
    /\ PaperOnly(lastRun.log)
    /\ \E i \in 1..Len(lastRun.log) : trade_outcome(lastRun.log[i])
    /\ EqualWeights(lastRun.before)
    /\ lastRun.before["political"] = Half
    /\ \A s \in SignalNames : lastRun.after[s] = One

\* C29 witness for unequal weights: the saved weights differ from one another
\* in the proportions of the loaded ones
C29_WitnessUnequal ==
    /\ lastRun.wrote
    /\ PaperOnly(lastRun.log)
    /\ ~EqualWeights(lastRun.before)
    /\ ~EqualWeights(lastRun.after)

====
